---------------------------- MODULE Spec2Model ----------------------------
(***************************************************************************)
(* AudioData (src/app/modules/audio/AudioData.py): a growable, time        *)
(* addressed sample buffer shared by a GUI thread, a recorder thread and a *)
(* player thread.                                                          *)
(*                                                                         *)
(* Times are integers counting steps of 1/(SAMPLE_RATE*SubDiv) second, so  *)
(* that int(time * SAMPLE_RATE) is a real truncation.  Sample values are   *)
(* integers: 0 is 0.0, a negative value is a sample decoded from a file,   *)
(* and a positive value 10*k+j is the j-th sample of the chunk given to    *)
(* the k-th call of write_data.                                            *)
(*                                                                         *)
(* numpy arrays are objects on a heap: self.data holds a reference, and a  *)
(* slice self.data[a:b] is a view on the same object, as in numpy.         *)
(*                                                                         *)
(* RecordTab (src/app/ui/tabs/RecordTab.py) owns such a buffer and drives  *)
(* the slider timer from its two playback buttons.                         *)
(***************************************************************************)
EXTENDS Integers, Sequences, FiniteSets, TLC

\* ---------------------------------------------------------------- bounds
\* AppConfig.SAMPLE_RATE (app/config.py), samples per second, scaled down
SAMPLE_RATE == 2
\* time steps per sample period
SubDiv == 2
\* longest chunk handed to write_data
MaxChunk == 2
\* largest time argument, in time steps
MaxTime == 6
\* most negative time argument, in time steps
NegTime == 4
\* longest MIDI length, in time steps
MaxMidi == 4
\* longest decoded audio file, in samples
MaxAudio == 2
\* calls the GUI thread makes in a sequential run
MaxOps == 1
\* calls each thread makes in a concurrent run
MaxCalls == 1
\* self._Slider.slider.maximum(), in slider ticks
MaxSlider == 4

\* ------------------------------------------------------ program constants
DEFAULT_LENGTH == 60

TimeDen == SAMPLE_RATE * SubDiv
Times == (0 - NegTime)..MaxTime
\* time arguments that fall on a sample boundary, from 0 on
AlignedTimes == {t \in Times : t >= 0 /\ t % SubDiv = 0}
Threads == {"main", "recorder", "player"}

\* --------------------------------------------------------- pure functions
Max(a, b) == IF a >= b THEN a ELSE b
Min(a, b) == IF a <= b THEN a ELSE b

\* Python's int() of the float n/d (d > 0): truncation toward zero
PyInt(n, d) == IF n >= 0 THEN n \div d ELSE 0 - ((0 - n) \div d)

\* int(time * AppConfig.SAMPLE_RATE)
ToIndex(t) == PyInt(t * SAMPLE_RATE, TimeDen)

\* bounds of a[start:stop] on an array of length n (Python slice.indices)
SliceLo(n, start) == IF start < 0 THEN Max(start + n, 0) ELSE Min(start, n)
SliceHi(n, stop) == IF stop < 0 THEN Max(stop + n, 0) ELSE Min(stop, n)
SliceLen(n, start, stop) == Max(SliceHi(n, stop) - SliceLo(n, start), 0)

\* numpy: a value of shape (n,) is assignable to a slice of shape (m,)
BroadcastOK(n, m) == n = m \/ n = 1

\* np.zeros(n)
Zeros(n) == [i \in 1..n |-> 0]

\* np.resize(a, n): repeated copies of a; zeros when a is empty
NpResize(a, n) ==
    IF Len(a) = 0 \/ n = 0 THEN Zeros(n)
    ELSE [i \in 1..n |-> a[((i - 1) % Len(a)) + 1]]

\* the chunk handed to the k-th write_data call, of length n
Chunk(k, n) == [j \in 1..n |-> 10 * k + j]

\* what es.MonoLoader yields for a file holding n samples
Decoded(n) == [j \in 1..n |-> 0 - j]

\* a[lo+1 .. hi] of a sequence (0-based half-open [lo, hi))
Slice(a, lo, hi) == IF hi <= lo THEN << >> ELSE SubSeq(a, lo + 1, hi)


\* ------------------------------------------------------------------ state
VARIABLES
    built,      \* outcome of AudioData.__init__: [ok, err, midi, file]
    capacity,   \* self.capacity
    data,       \* self.data: index into heap, 0 when the attribute is not set
    heap,       \* the numpy arrays allocated so far, by reference
    lock,       \* self.lock: "free" or the thread holding it
    pc,         \* per thread: the line of AudioData.py it stands at
    loc,        \* per thread: the locals of the call in progress
    ret,        \* per thread: what its last call returned or raised
    ncalls,     \* per thread: calls invoked so far
    wlog,       \* history: one record per write_data call
    hEnd,       \* history: highest end_index of a write_data that returned
                \* since the content was last loaded
    lastW       \* history: the last write_data that returned, with no write
                \* in progress then and no write or load since

\* RecordTab (src/app/ui/tabs/RecordTab.py) and the widgets it drives
VARIABLES
    is_midi_playing,    \* self.is_midi_playing
    is_user_playing,    \* self.is_user_playing
    timer_running,      \* self._Slider: whether its timer is running
    slider,             \* self._Slider: the slider value, in ticks
    midi_player,        \* self._MidiPlayer: [playing, start_time]
    audio_player        \* self._AudioPlayer: [playing, start_time]

bufvars == << built, capacity, data, heap, lock, pc, loc, ret, ncalls, wlog, hEnd, lastW >>

tabvars == << is_midi_playing, is_user_playing, timer_running, slider,
              midi_player, audio_player >>

vars == << built, capacity, data, heap, lock, pc, loc, ret, ncalls, wlog, hEnd, lastW,
           is_midi_playing, is_user_playing, timer_running, slider,
           midi_player, audio_player >>

\* RecordTab.__init__: nothing plays, the slider stands at 0
TabInit ==
    /\ is_midi_playing = FALSE
    /\ is_user_playing = FALSE
    /\ timer_running = FALSE
    /\ slider = 0
    /\ midi_player = [playing |-> FALSE, start_time |-> 0]
    /\ audio_player = [playing |-> FALSE, start_time |-> 0]

NoLoc == [st |-> 0, et |-> 0, buf |-> << >>, start |-> 0, end |-> 0,
          tmp |-> 0, target |-> 0, lo |-> 0, m |-> 0, i |-> 0, wid |-> 0,
          preCap |-> 0, preHas |-> FALSE, preData |-> << >>, after |-> 0]

NoRet == [op |-> "none", err |-> "none", st |-> 0, et |-> 0, buf |-> << >>,
          start |-> 0, end |-> 0, wid |-> 0,
          preCap |-> 0, preHas |-> FALSE, preData |-> << >>, after |-> 0,
          arr |-> 0, lo |-> 0, hi |-> 0, snap |-> << >>]

NoWrite == [id |-> 0, st |-> 0, buf |-> << >>]

\* the content of self.data, << >> when the attribute is not set
Content == IF data = 0 THEN << >> ELSE heap[data]

\* the locals of a call that starts now: its arguments, the last returned
\* write it follows and, when keep (a history the sequential runs record), the
\* state it found
Entry(st, et, buf, keep) ==
    IF keep
    THEN [NoLoc EXCEPT !.st = st, !.et = et, !.buf = buf,
                       !.preCap = capacity, !.preHas = (data # 0),
                       !.preData = Content, !.after = lastW.id]
    ELSE [NoLoc EXCEPT !.st = st, !.et = et, !.buf = buf, !.after = lastW.id]

\* the record of a finished call: the view it returned is heap[arr][lo..hi)
Outcome(op, l, err, arr, lo, hi, snap) ==
    [op |-> op, err |-> err, st |-> l.st, et |-> l.et, buf |-> l.buf,
     start |-> l.start, end |-> l.end, wid |-> l.wid,
     preCap |-> l.preCap, preHas |-> l.preHas, preData |-> l.preData,
     after |-> l.after, arr |-> arr, lo |-> lo, hi |-> hi, snap |-> snap]

\* ------------------------------------------------------------ construction
MidiOpts == {[given |-> FALSE, len |-> 0]}
            \cup {[given |-> TRUE, len |-> n] : n \in (0 - NegTime)..MaxMidi}
FileOpts == {[given |-> FALSE, ok |-> TRUE, n |-> 0],
             [given |-> TRUE, ok |-> FALSE, n |-> 0]}
            \cup {[given |-> TRUE, ok |-> TRUE, n |-> n] : n \in 0..MaxAudio}

\* AudioData.__init__(MidiData, audio_filepath): the object it leaves, or the
\* exception that ends it
AudioData__init__(midi, file) ==
    LET cap0 == IF midi.given THEN ToIndex(midi.len)
                ELSE DEFAULT_LENGTH * SAMPLE_RATE
    IN  IF midi.given /\ cap0 < 0
        THEN [ok |-> FALSE, err |-> "ValueError", capacity |-> 0,
              has |-> FALSE, content |-> << >>]
        ELSE IF file.given /\ ~file.ok
        THEN [ok |-> FALSE, err |-> "RuntimeError", capacity |-> 0,
              has |-> FALSE, content |-> << >>]
        ELSE IF file.given
        THEN [ok |-> TRUE, err |-> "none", capacity |-> file.n,
              has |-> TRUE, content |-> Decoded(file.n)]
        ELSE [ok |-> TRUE, err |-> "none", capacity |-> cap0,
              has |-> midi.given, content |-> Zeros(IF midi.given THEN cap0 ELSE 0)]

InitWith(midi, file) ==
    LET o == AudioData__init__(midi, file)
    IN  /\ built = [ok |-> o.ok, err |-> o.err, midi |-> midi, file |-> file]
        /\ capacity = o.capacity
        /\ data = IF o.has THEN 1 ELSE 0
        /\ heap = IF o.has THEN << o.content >> ELSE << >>
        /\ lock = "free"
        /\ pc = [t \in Threads |-> "idle"]
        /\ loc = [t \in Threads |-> NoLoc]
        /\ ret = [t \in Threads |-> NoRet]
        /\ ncalls = [t \in Threads |-> 0]
        /\ wlog = << >>
        /\ hEnd = 0
        /\ lastW = NoWrite
        /\ TabInit

\* a call may start: the object exists and the thread has calls left
CanCall(t, max) == built.ok /\ pc[t] = "idle" /\ ncalls[t] < max

\* thread t's call ends with outcome r
Return(t, r) ==
    /\ pc' = [pc EXCEPT ![t] = "idle"]
    /\ loc' = [loc EXCEPT ![t] = NoLoc]
    /\ ret' = [ret EXCEPT ![t] = r]


\* -------------------------------------------------------------- write_data
\* lines 47, 54-55: the call, start_index and end_index
WriteCall(t, T, max, keep) ==
    /\ CanCall(t, max)
    /\ \E st \in T, n \in 0..MaxChunk :
         LET wid == Len(wlog) + 1
             buf == Chunk(wid, n)
             start == ToIndex(st)
         IN  /\ loc' = [loc EXCEPT ![t] = [Entry(st, 0, buf, keep) EXCEPT
                            !.start = start, !.end = start + n, !.wid = wid]]
             /\ wlog' = Append(wlog, [st |-> st, start |-> start, end |-> start + n,
                                      buf |-> buf, state |-> "called", m |-> 0])
    /\ pc' = [pc EXCEPT ![t] = "w57"]
    /\ ret' = [ret EXCEPT ![t] = NoRet]
    /\ ncalls' = [ncalls EXCEPT ![t] = @ + 1]
    /\ lastW' = NoWrite
    /\ UNCHANGED << built, capacity, data, heap, lock, hEnd >>

\* line 57: if end_index > self.capacity
NeedsGrowth(end, cap) == end > cap

WriteTest(t) ==
    /\ pc[t] = "w57"
    /\ pc' = [pc EXCEPT ![t] = IF NeedsGrowth(loc[t].end, capacity) THEN "w59" ELSE "w63"]
    /\ UNCHANGED << built, capacity, data, heap, lock, loc, ret, ncalls, wlog, hEnd, lastW >>

\* line 59: the capacity a growth asks for
GrownCapacity(cap, end) == cap * 2

\* line 59, self.capacity *= 2: the read and the product
WriteDouble(t) ==
    /\ pc[t] = "w59"
    /\ loc' = [loc EXCEPT ![t].tmp = GrownCapacity(capacity, loc[t].end)]
    /\ pc' = [pc EXCEPT ![t] = "w59s"]
    /\ UNCHANGED << built, capacity, data, heap, lock, ret, ncalls, wlog, hEnd, lastW >>

\* line 59, self.capacity *= 2: the store
WriteStoreCapacity(t) ==
    /\ pc[t] = "w59s"
    /\ capacity' = loc[t].tmp
    /\ pc' = [pc EXCEPT ![t] = "w60"]
    /\ UNCHANGED << built, data, heap, lock, loc, ret, ncalls, wlog, hEnd, lastW >>

\* write_data ends for thread t with exception err (or "none")
WriteEnds(t, err) ==
    /\ Return(t, Outcome("write", loc[t], err, 0, 0, 0, << >>))
    /\ wlog' = [wlog EXCEPT ![loc[t].wid].state = IF err = "none" THEN "done" ELSE "raised"]
    /\ hEnd' = IF err = "none" THEN Max(hEnd, loc[t].end) ELSE hEnd
    /\ lastW' = IF err = "none"
                   /\ \A u \in DOMAIN wlog :
                          u # loc[t].wid => wlog[u].state \in {"done", "raised"}
                THEN [id |-> loc[t].wid, st |-> loc[t].st, buf |-> loc[t].buf]
                ELSE NoWrite

\* line 60, np.resize(self.data, self.capacity): the new array, a copy of
\* the content self.data has at this moment; self.lock is not held
WriteResize(t) ==
    /\ pc[t] = "w60"
    /\ IF data = 0
       THEN /\ WriteEnds(t, "AttributeError")
            /\ UNCHANGED heap
       ELSE /\ heap' = Append(heap, NpResize(heap[data], capacity))
            /\ loc' = [loc EXCEPT ![t].tmp = Len(heap) + 1]
            /\ pc' = [pc EXCEPT ![t] = "w60s"]
            /\ UNCHANGED << ret, wlog, hEnd, lastW >>
    /\ UNCHANGED << built, capacity, data, lock, ncalls >>

\* line 60, self.data = ...: the store
WriteStoreData(t) ==
    /\ pc[t] = "w60s"
    /\ data' = loc[t].tmp
    /\ pc' = [pc EXCEPT ![t] = "w63"]
    /\ UNCHANGED << built, capacity, heap, lock, loc, ret, ncalls, wlog, hEnd, lastW >>

\* a with block that keeps the lock when it is left
LockKept(t) == t

\* line 63, with self.lock: what the lock is once thread t has left the block,
\* by the end of the statement or by an exception raised inside it
LockExit(t) == "free"

\* lines 63-64: with self.lock, self.data[start_index:end_index] is resolved
\* and the shapes are compared
WriteLock(t) ==
    /\ pc[t] = "w63"
    /\ lock = "free"
    /\ IF data = 0
       THEN /\ WriteEnds(t, "AttributeError")
            /\ lock' = LockExit(t)
       ELSE LET n == Len(heap[data])
                lo == SliceLo(n, loc[t].start)
                m == SliceLen(n, loc[t].start, loc[t].end)
            IN  IF ~BroadcastOK(Len(loc[t].buf), m)
                THEN /\ WriteEnds(t, "ValueError")
                     /\ lock' = LockExit(t)
                ELSE IF m = 0
                THEN /\ WriteEnds(t, "none")
                     /\ lock' = LockExit(t)
                ELSE /\ lock' = t
                     /\ loc' = [loc EXCEPT ![t].target = data, ![t].lo = lo,
                                           ![t].m = m, ![t].i = 0]
                     /\ wlog' = [wlog EXCEPT ![loc[t].wid].state = "copying",
                                             ![loc[t].wid].m = m]
                     /\ pc' = [pc EXCEPT ![t] = "w64"]
                     /\ UNCHANGED << ret, hEnd, lastW >>
    /\ UNCHANGED << built, capacity, data, heap, ncalls >>

\* line 64: one sample of the chunk is stored; the lock is released with the
\* last one.  numpy copies the elements without holding the interpreter lock,
\* so a thread that does not take self.lock can run between two stores.
WriteCopy(t) ==
    /\ pc[t] = "w64"
    /\ lock = t
    /\ LET l == loc[t]
       IN  /\ heap' = [heap EXCEPT ![l.target][l.lo + l.i + 1] = l.buf[l.i + 1]]
           /\ IF l.i + 1 = l.m
              THEN /\ WriteEnds(t, "none")
                   /\ lock' = LockExit(t)
              ELSE /\ loc' = [loc EXCEPT ![t].i = l.i + 1]
                   /\ UNCHANGED << lock, pc, ret, wlog, hEnd, lastW >>
    /\ UNCHANGED << built, capacity, data, ncalls >>

\* --------------------------------------------------------------- read_data
\* lines 66, 75-76: the call, start_index and end_index
ReadCall(t, W, max, keep) ==
    /\ CanCall(t, max)
    /\ \E w \in W :
         loc' = [loc EXCEPT ![t] = [Entry(w[1], w[2], << >>, keep) EXCEPT
                     !.start = ToIndex(w[1]), !.end = ToIndex(w[2])]]
    /\ pc' = [pc EXCEPT ![t] = "r78"]
    /\ ret' = [ret EXCEPT ![t] = NoRet]
    /\ ncalls' = [ncalls EXCEPT ![t] = @ + 1]
    /\ UNCHANGED << built, capacity, data, heap, lock, wlog, hEnd, lastW >>

\* a slice that stops one sample short of the end of the array
ReadResultShort(arr, start, end) ==
    LET n == Max(Len(heap[arr]) - 1, 0)
        lo == SliceLo(n, start)
        hi == lo + SliceLen(n, start, end)
    IN  [arr |-> arr, lo |-> lo, hi |-> hi]

\* what line 79 hands back: the slice self.data[start_index:end_index] of
\* array arr, a view [lo, hi) on that array
ReadResult(arr, start, end) ==
    LET n == Len(heap[arr])
        lo == SliceLo(n, start)
        hi == lo + SliceLen(n, start, end)
    IN  [arr |-> arr, lo |-> lo, hi |-> hi]

\* lines 78-79: with self.lock, return self.data[start_index:end_index]
ReadLocked(t) ==
    /\ pc[t] = "r78"
    /\ lock = "free"
    /\ IF data = 0
       THEN Return(t, Outcome("read", loc[t], "AttributeError", 0, 0, 0, << >>))
       ELSE LET v == ReadResult(data, loc[t].start, loc[t].end)
            IN  Return(t, Outcome("read", loc[t], "none", v.arr, v.lo, v.hi,
                                  Slice(heap[v.arr], v.lo, v.hi)))
    /\ lock' = LockExit(t)
    /\ UNCHANGED << built, capacity, data, heap, ncalls, wlog, hEnd, lastW >>

\* --------------------------------------------------------------- load_data
\* lines 34, 40-41: the call and the decoding of the file
LoadCall(t, max) ==
    /\ CanCall(t, max)
    /\ \E file \in {f \in FileOpts : f.given} :
         IF file.ok
         THEN /\ loc' = [loc EXCEPT ![t] = Entry(0, 0, Decoded(file.n), TRUE)]
              /\ pc' = [pc EXCEPT ![t] = "l44"]
              /\ ret' = [ret EXCEPT ![t] = NoRet]
         ELSE Return(t, Outcome("load", Entry(0, 0, << >>, TRUE), "RuntimeError", 0, 0, 0, << >>))
    /\ ncalls' = [ncalls EXCEPT ![t] = @ + 1]
    /\ UNCHANGED << built, capacity, data, heap, lock, wlog, hEnd, lastW >>

\* line 44: self.data = audio_data
LoadStoreData(t) ==
    /\ pc[t] = "l44"
    /\ heap' = Append(heap, loc[t].buf)
    /\ data' = Len(heap) + 1
    /\ pc' = [pc EXCEPT ![t] = "l45"]
    /\ hEnd' = 0
    /\ lastW' = NoWrite
    /\ UNCHANGED << built, capacity, lock, loc, ret, ncalls, wlog >>

\* line 45: self.capacity = len(audio_data)
LoadStoreCapacity(t) ==
    /\ pc[t] = "l45"
    /\ capacity' = Len(loc[t].buf)
    /\ Return(t, Outcome("load", loc[t], "none", 0, 0, 0, << >>))
    /\ UNCHANGED << built, data, heap, lock, ncalls, wlog, hEnd, lastW >>

\* ----------------------------------------------------------- specification
\* the steps of a write_data call in progress
WriteBody(t) ==
    \/ WriteTest(t)
    \/ WriteDouble(t)
    \/ WriteStoreCapacity(t)
    \/ WriteResize(t)
    \/ WriteStoreData(t)
    \/ WriteLock(t)
    \/ WriteCopy(t)

\* the steps of a load_data call in progress
LoadBody(t) ==
    \/ LoadStoreData(t)
    \/ LoadStoreCapacity(t)

\* Concurrent runs: a buffer sized from a MIDI file; the GUI thread and the
\* recorder thread each write, the player thread reads.
ConcTimes == {t \in AlignedTimes : t <= MaxMidi}
ConcWindows == {w \in ConcTimes \X ConcTimes : w[1] <= w[2]}

Init ==
    \E n \in ConcTimes :
        InitWith([given |-> TRUE, len |-> n], [given |-> FALSE, ok |-> TRUE, n |-> 0])

Next ==
    \/ \E t \in {"main", "recorder"} :
          WriteCall(t, ConcTimes, MaxCalls, FALSE) /\ UNCHANGED tabvars
    \/ \E t \in {"main", "recorder"} : WriteBody(t) /\ UNCHANGED tabvars
    \/ ReadCall("player", ConcWindows, MaxCalls, FALSE) /\ UNCHANGED tabvars
    \/ ReadLocked("player") /\ UNCHANGED tabvars

Spec == Init /\ [][Next]_vars

\* Sequential runs: any construction, then the GUI thread alone loads,
\* writes and reads.
InitSeq == \E midi \in MidiOpts, file \in FileOpts : InitWith(midi, file)

NextSeq ==
    \/ WriteCall("main", Times, MaxOps, TRUE) /\ UNCHANGED tabvars
    \/ WriteBody("main") /\ UNCHANGED tabvars
    \/ ReadCall("main", Times \X Times, MaxOps, TRUE) /\ UNCHANGED tabvars
    \/ ReadLocked("main") /\ UNCHANGED tabvars
    \/ LoadCall("main", MaxOps) /\ UNCHANGED tabvars
    \/ LoadBody("main") /\ UNCHANGED tabvars

SpecSeq == InitSeq /\ [][NextSeq]_vars

\* Recording while playing back: the recorder thread writes and the player
\* thread reads, under a fair scheduler.  A thread that is running takes its
\* next step; a thread that waits for self.lock gets it if the lock is free
\* again and again.
RecorderStep == WriteBody("recorder") /\ UNCHANGED tabvars
PlayerStep == ReadLocked("player") /\ UNCHANGED tabvars

NextLive ==
    \/ WriteCall("recorder", ConcTimes, MaxCalls, FALSE) /\ UNCHANGED tabvars
    \/ RecorderStep
    \/ ReadCall("player", ConcWindows, MaxCalls, FALSE) /\ UNCHANGED tabvars
    \/ PlayerStep

SpecLive ==
    /\ Init
    /\ [][NextLive]_vars
    /\ SF_vars(RecorderStep)
    /\ SF_vars(PlayerStep)


\* --------------------------------------------------------------- RecordTab
\* lines 149-164: the 'Play MIDI' button
toggle_midi ==
    /\ IF is_midi_playing
       THEN /\ timer_running' = FALSE
            /\ is_midi_playing' = FALSE
            /\ midi_player' = [midi_player EXCEPT !.playing = FALSE]
       ELSE /\ timer_running' = TRUE
            /\ is_midi_playing' = TRUE
            /\ midi_player' = [playing |-> TRUE, start_time |-> slider]
    /\ UNCHANGED << is_user_playing, slider, audio_player >>
    /\ UNCHANGED bufvars

\* lines 166-177: the 'Play Recorded Audio' button
toggle_user_playback ==
    /\ IF is_user_playing
       THEN /\ timer_running' = FALSE
            /\ audio_player' = [audio_player EXCEPT !.playing = FALSE]
            /\ is_user_playing' = FALSE
       ELSE /\ timer_running' = TRUE
            /\ audio_player' = [playing |-> TRUE, start_time |-> slider]
            /\ is_user_playing' = TRUE
    /\ UNCHANGED << is_midi_playing, slider, midi_player >>
    /\ UNCHANGED bufvars

\* lines 180-195: the slider, moved by its timer or by the user, stands at
\* value
handle_slider_change(value) ==
    /\ value # slider
    /\ slider' = value
    /\ IF value = MaxSlider
       THEN /\ timer_running' = FALSE
            /\ is_midi_playing' = FALSE
            /\ midi_player' = [midi_player EXCEPT !.playing = FALSE]
            /\ is_user_playing' = FALSE
            /\ audio_player' = [audio_player EXCEPT !.playing = FALSE]
       ELSE UNCHANGED << timer_running, is_midi_playing, midi_player,
                         is_user_playing, audio_player >>
    /\ UNCHANGED bufvars

\* The tab in use: init_user_audio has built its buffer from a recording, and
\* the user presses the two buttons and the slider moves.
InitTab ==
    InitWith([given |-> FALSE, len |-> 0], [given |-> TRUE, ok |-> TRUE, n |-> MaxAudio])

NextTab ==
    \/ toggle_midi
    \/ toggle_user_playback
    \/ \E value \in 0..MaxSlider : handle_slider_change(value)

SpecTab == InitTab /\ [][NextTab]_vars

\* ------------------------------------------------------------------ claims
\* the last call of the GUI thread, in a sequential run
Last == ret["main"]

\* write w of the log stored its whole chunk at [start, end), and no other
\* write of the log addresses a sample of that range
Applied(w) == Len(wlog[w].buf) > 0 /\ wlog[w].m = Len(wlog[w].buf) /\ wlog[w].start >= 0
Disjoint(w) ==
    \A u \in DOMAIN wlog :
        u # w => \/ Len(wlog[u].buf) = 0
                 \/ wlog[u].end <= wlog[w].start
                 \/ wlog[w].end <= wlog[u].start

\* C1: capacity coverage. After each write_data that returned, capacity is at
\* least the end_index of that write and of every write before it.
C1_CapacityCoverage == hEnd <= capacity

\* C2: no torn reads. In the samples a read returned, the part that overlaps
\* the range of a write (writers addressing disjoint ranges) holds either all
\* of that write's samples or none of them.
C2_NoTornRead ==
    \A t \in Threads :
        (ret[t].op = "read" /\ ret[t].err = "none") =>
            \A w \in DOMAIN wlog :
                (Applied(w) /\ Disjoint(w)) =>
                    LET from == Max(ret[t].lo, wlog[w].start)
                        to == Min(ret[t].hi, wlog[w].end)
                        Mine(k) == ret[t].snap[k - ret[t].lo + 1]
                                       = wlog[w].buf[k - wlog[w].start + 1]
                    IN  \/ \A k \in from..(to - 1) : Mine(k)
                        \/ \A k \in from..(to - 1) : ~Mine(k)

\* the steps of write_data that store the capacity, the storage reference or
\* a sample, and all the steps of its resize-then-copy sequence
Replacing == {"w59s", "w60s", "w64"}
InSequence == {"w57", "w59", "w59s", "w60", "w60s", "w64"}

\* C3: mutual exclusion over the storage. While a thread is about to store
\* the capacity, the storage reference or a sample, no other thread is inside
\* the resize-then-copy sequence of a write.
C3_MutualExclusion ==
    \A t \in Threads, u \in Threads :
        (t # u /\ pc[t] \in Replacing) => pc[u] \notin InSequence

\* C4: no lost writes. Once every write has returned, the samples of each
\* write that stored its chunk (writers addressing disjoint ranges) are in
\* the buffer.
C4_NoLostWrite ==
    (\A u \in DOMAIN wlog : wlog[u].state \in {"done", "raised"}) =>
        \A w \in DOMAIN wlog :
            (wlog[w].state = "done" /\ Applied(w) /\ Disjoint(w)) =>
                Slice(Content, wlog[w].start, wlog[w].end) = wlog[w].buf

\* C5: round trip. A read of [start_time, start_time + len(chunk)/sample_rate)
\* called after write_data(chunk, start_time) returned, with no other write
\* called before the read returned, returns exactly chunk.
C5_RoundTrip ==
    \A t \in Threads :
        (/\ ret[t].op = "read"
         /\ lastW.id # 0 /\ ret[t].after = lastW.id
         /\ lastW.st >= 0
         /\ ret[t].st = lastW.st
         /\ ret[t].et * SAMPLE_RATE = lastW.st * SAMPLE_RATE + Len(lastW.buf) * TimeDen)
        => (ret[t].err = "none" /\ ret[t].snap = lastW.buf)

\* C6: storage/capacity agreement. From the end of construction on, the sample
\* storage exists, its length is capacity, and capacity >= 0.
C6_StorageAgreesWithCapacity ==
    built.ok => (data # 0 /\ Len(Content) = capacity /\ capacity >= 0)

\* C7: read returns a copy. The sequence a read returned keeps the values it
\* had when the read returned, whatever is done to the buffer afterwards.
C7_ReadReturnsCopy ==
    \A t \in Threads :
        (ret[t].op = "read" /\ ret[t].err = "none") =>
            Slice(heap[ret[t].arr], ret[t].lo, ret[t].hi) = ret[t].snap

\* C8: zero-filled growth. After a write that grew the buffer from capacity C,
\* every index from C on outside the written range holds 0.0 and every index
\* below C outside the written range holds its previous value.
C8_ZeroFilledGrowth ==
    (/\ Last.op = "write" /\ Last.err = "none"
     /\ Last.st >= 0 /\ Last.preHas
     /\ capacity > Last.preCap)
    => \A i \in 0..(Len(Content) - 1) :
           (i < Last.start \/ i >= Last.end) =>
               IF i >= Last.preCap THEN Content[i + 1] = 0
               ELSE Content[i + 1] = Last.preData[i + 1]

\* C9: a write_data of a chunk with start_time < 0, on a buffer that has its
\* storage, fails with NegativeStartTime and leaves capacity and every sample
\* as they were.
C9_NegativeWriteRejected ==
    (Last.op = "write" /\ Last.st < 0 /\ Last.preHas /\ Len(Last.buf) > 0) =>
        /\ Last.err = "NegativeStartTime"
        /\ capacity = Last.preCap
        /\ (data # 0) = Last.preHas
        /\ Content = Last.preData

\* C10: a read_data with a negative time offset, on a buffer that has its
\* storage, fails with NegativeStartTime; it returns no samples.
C10_NegativeReadRejected ==
    (Last.op = "read" /\ (Last.st < 0 \/ Last.et < 0) /\ Last.preHas) =>
        Last.err = "NegativeStartTime"

\* floor(time * sample_rate) of a time >= 0, in samples
Floor(t) == (t * SAMPLE_RATE) \div TimeDen

\* C11: clamped overrun read. On a buffer that has its storage, a read_data
\* with 0 <= start_time <= end_time raises nothing and returns exactly
\* samples[min(s, capacity) : min(e, capacity)], s and e the floors of the two
\* times in samples; no returned sample lies outside [0, capacity).
C11_ClampedOverrunRead ==
    (Last.op = "read" /\ Last.preHas /\ 0 <= Last.st /\ Last.st <= Last.et) =>
        /\ Last.err = "none"
        /\ Last.snap = Slice(Last.preData, Min(Floor(Last.st), Last.preCap),
                                           Min(Floor(Last.et), Last.preCap))
        /\ 0 <= Last.lo /\ Last.hi <= Last.preCap
        /\ capacity = Last.preCap /\ Content = Last.preData

\* a read that starts inside the buffer and ends past its capacity returned
\* the samples in bounds
C11_Witness ==
    /\ Last.op = "read" /\ Last.preHas /\ Last.err = "none"
    /\ 0 <= Last.st /\ Floor(Last.st) < Last.preCap /\ Floor(Last.et) > Last.preCap
    /\ Len(Last.snap) = Last.preCap - Floor(Last.st)
    /\ Last.snap[1] # 0

\* C12: capacity is monotonically non-decreasing over the lifetime of a buffer
\* object. No step of a write_data, read_data or load_data on a constructed
\* buffer makes capacity smaller than it was.
C12_CapacityMonotone == [][capacity' >= capacity]_vars

\* no call has been made on the buffer yet
Fresh == \A t \in Threads : ncalls[t] = 0

\* C13: construction without an audio file yields a live, zero-filled buffer.
\* With a duration source (duration >= 0) capacity = floor(duration *
\* sample_rate), with none capacity = 60 * sample_rate; the storage holds
\* capacity samples, all 0.0, and the first read_data or write_data finds it.
C13_ConstructionZeroFilled ==
    (built.ok /\ ~built.file.given /\ built.midi.len >= 0) =>
        /\ Fresh =>
              /\ capacity = IF built.midi.given THEN Floor(built.midi.len)
                            ELSE 60 * SAMPLE_RATE
              /\ data # 0
              /\ Content = Zeros(capacity)
        /\ Last.op \in {"read", "write"} => Last.err # "AttributeError"

\* C17: construction with a negative expected duration fails, the error
\* reaching the caller of the constructor (numpy's ValueError for a negative
\* size is the error the code has for it), and no buffer is produced.
C17_NegativeDurationRejected ==
    (built.midi.given /\ built.midi.len < 0) =>
        (~built.ok /\ built.err \in {"InvalidDuration", "ValueError"})

\* C14: writing an empty chunk is a no-op. A write_data of an empty chunk with
\* start_time >= 0, on a buffer that has its storage, returns normally and
\* leaves capacity and every sample as they were, also when start_index lies
\* beyond the capacity.
C14_EmptyWriteNoOp ==
    (Last.op = "write" /\ Len(Last.buf) = 0 /\ Last.st >= 0 /\ Last.preHas) =>
        /\ Last.err = "none"
        /\ capacity = Last.preCap
        /\ Content = Last.preData

\* C15: empty read. In every buffer state, a read_data with times >= 0 whose
\* end_index is not beyond its start_index (read(t, t) above all, t inside or
\* beyond the capacity) returns an empty sequence and changes nothing.
C15_EmptyRead ==
    (/\ Last.op = "read" /\ Last.st >= 0 /\ Last.et >= 0
     /\ Floor(Last.et) <= Floor(Last.st))
    => /\ Last.err = "none"
       /\ Last.snap = << >>
       /\ capacity = Last.preCap
       /\ (data # 0) = Last.preHas
       /\ Content = Last.preData

\* C16: a decode failure leaves no usable partially initialised buffer. A
\* constructor given a file that does not decode produces no object and its
\* caller gets the loader's error; a load_data that fails hands the loader's
\* error to its caller, replaces neither capacity nor content, and does not
\* leave a buffer that has a capacity and no storage.
C16_DecodeFailure ==
    /\ (built.file.given /\ ~built.file.ok) =>
           /\ ~built.ok
           /\ built.midi.len >= 0 => built.err = "RuntimeError"
    /\ (Last.op = "load" /\ Last.err # "none") =>
           /\ Last.err = "RuntimeError"
           /\ capacity = Last.preCap
           /\ Content = Last.preData
           /\ data # 0

\* the capacity reached from cap by doubling until end fits (cap > 0)
RECURSIVE DoubledUntil(_, _)
DoubledUntil(cap, end) == IF end <= cap THEN cap ELSE DoubledUntil(2 * cap, end)

\* C18: growth rule of write_data (a chunk at a start_time >= 0, a buffer with
\* storage and capacity > 0). If end_index <= capacity the capacity is unchanged, otherwise
\* it is the old capacity doubled the least number of times that makes
\* end_index fit; the storage has the new capacity before a sample is stored.
C18_GrowthRule ==
    /\ (/\ Last.op = "write" /\ Last.st >= 0 /\ Len(Last.buf) > 0
        /\ Last.preHas /\ Last.preCap > 0)
       => capacity = DoubledUntil(Last.preCap, Last.end)
    /\ pc["main"] = "w64" =>
           (data = loc["main"].target /\ Len(Content) = capacity)

\* C19: lock liveness. Under fair scheduling of the recorder and the player,
\* every read_data and write_data that was invoked returns, the thread not
\* holding self.lock then, and a lock that is held becomes free again, also
\* when the write fails inside the with block.
C19_LockLiveness ==
    /\ \A t \in {"recorder", "player"} :
           (pc[t] # "idle") ~> (pc[t] = "idle" /\ lock # t)
    /\ (lock # "free") ~> (lock = "free")

\* the recorder's write_data failed inside the with block while the player's
\* read_data was on its way to the lock
C19_Witness ==
    /\ ret["recorder"].op = "write" /\ ret["recorder"].err = "ValueError"
    /\ pc["player"] = "r78"
    /\ lock = "free"

\* C20: transport timer and playback flags of RecordTab. After any sequence of
\* toggle_midi, toggle_user_playback and handle_slider_change, the slider
\* timer runs exactly when is_midi_playing or is_user_playing is true.
C20_TimerFollowsPlayback ==
    timer_running <=> (is_midi_playing \/ is_user_playing)

=============================================================================
